---- MODULE Spec2Model ----
(***************************************************************************)
(* Model of src/src/plot_reconstructed_codebook.py: the codebook sweep of  *)
(* generate_codebook, the cross-validation sweep of compare_codebooks and  *)
(* the polygon construction of plot_with_voronoi.                          *)
(*                                                                         *)
(* Numbers.  A float coordinate is modelled as an integer count of 1e-10,  *)
(* so 1e-9 (the rounding quantum of np.round(.., 9)) is 10, 1e-7 (atol) is *)
(* 1000 and 1e-2 (origin tolerance) is 10^8.  The overlap fraction and the *)
(* polygon scale factors are exact rationals <<num, den>>, den > 0, in     *)
(* lowest terms; floating rounding of those quotients is not modelled.     *)
(*                                                                         *)
(* Collaborators.  The quantizers (nested_lattice_quantizer), the nearest  *)
(* point oracle and scipy's Voronoi are not part of the file.  They are    *)
(* modelled from the interface the specification gives them (encode ->     *)
(* (representation, overflow), decode -> point), as a small family of      *)
(* behaviours chosen when the run starts.                                  *)
(***************************************************************************)
EXTENDS Integers, Sequences, FiniteSets, TLC

\* ---------------------------------------------------------------- bounds
MaxQ == 4
MaxM == 2
MaxBase == 16

\* ------------------------------------------------------ program constants
\* atol=1e-7 of both np.allclose calls, in units of 1e-10
ATOL == 1000
\* 1/rtol of np.allclose (numpy default rtol = 1e-5)
RTOL_INV == 100000
\* atol=1e-2 of the np.isclose origin lookup, in units of 1e-10
ORIGIN_ATOL == 100000000
\* quantum of np.round(dec, decimals=9), in units of 1e-10
ROUND_QUANTUM == 10

\* ------------------------------------------------------------- arithmetic
Abs(x) == IF x < 0 THEN -x ELSE x

RECURSIVE Pow(_, _)
Pow(b, e) == IF e <= 0 THEN 1 ELSE b * Pow(b, e - 1)

RECURSIVE GCD(_, _)
GCD(a, b) == IF b = 0 THEN Abs(a) ELSE GCD(b, a % b)

\* a rational in lowest terms with positive denominator (dd # 0)
Rat(n, dd) ==
    LET g == GCD(Abs(n), Abs(dd))
        s == IF dd < 0 THEN -1 ELSE 1
    IN  <<(s * n) \div g, (s * dd) \div g>>

RatSub(a, b) == Rat(a[1] * b[2] - b[1] * a[2], a[2] * b[2])
RatAdd(a, b) == Rat(a[1] * b[2] + b[1] * a[2], a[2] * b[2])
RatMul(a, b) == Rat(a[1] * b[1], a[2] * b[2])
RatDiv(a, b) == Rat(a[1] * b[2], a[2] * b[1])
RatLess(a, b) == a[1] * b[2] < b[1] * a[2]
RatInt(n) == <<n, 1>>

\* q ** e for an integer exponent of either sign
RatPow(b, e) == IF e >= 0 THEN RatInt(Pow(b, e)) ELSE Rat(1, Pow(b, -e))

Dot(g, v) == <<g[1][1] * v[1] + g[1][2] * v[2], g[2][1] * v[1] + g[2][2] * v[2]>>
VecAdd(a, b) == <<a[1] + b[1], a[2] + b[2]>>

\* floor(a / b + 1/2) for b > 0
RoundDiv(a, b) == (2 * a + b) \div (2 * b)

\* np.round(x, decimals=9): round half to even on the 1e-9 grid
Round9(v) ==
    LET k == v \div ROUND_QUANTUM
        m == v % ROUND_QUANTUM
    IN  IF 2 * m < ROUND_QUANTUM THEN k * ROUND_QUANTUM
        ELSE IF 2 * m > ROUND_QUANTUM THEN (k + 1) * ROUND_QUANTUM
        ELSE IF k % 2 = 0 THEN k * ROUND_QUANTUM ELSE (k + 1) * ROUND_QUANTUM

Round9Pt(p) == <<Round9(p[1]), Round9(p[2])>>

\* np.allclose(a, b, atol): every |a - b| <= atol + rtol * |b|
AllClose(a, b, atol) ==
    \A c \in 1..2 : Abs(a[c] - b[c]) <= atol + (Abs(b[c]) \div RTOL_INV)

\* np.isclose(p, [0, 0], atol=1e-2).all(): b = 0, so the rtol term is 0
NearOrigin(p) == \A c \in 1..2 : Abs(p[c]) <= ORIGIN_ATOL


\* ------------------------------------------------------------ collaborators
\* Generator matrices offered to a run (row-major 2x2, units of 1e-10): a
\* square lattice with spacing 1e-4 and a sheared one with spacing 2e-4.
Generators ==
    { << <<1000000, 0>>, <<0, 1000000>> >>,
      << <<2000000, 1000000>>, <<0, 2000000>> >> }

\* d = 1e-9 * N(0,1)^2, a few sample draws (units of 1e-10)
Perturbations == { <<3, -7>>, <<-12, 6>> }

HKinds == {"nested", "truncating", "aliasing", "jitter", "drift", "offset"}
FKinds == {"nested", "skewed"}

\* closest_point followed by G^-1: the integer coefficients of the lattice
\* point next to x (upper-triangular G, successive rounding)
Coef(g, x) ==
    LET c2 == RoundDiv(x[2], g[2][2])
        c1 == RoundDiv(x[1] - g[1][2] * c2, g[1][1])
    IN  <<c1, c2>>

\* representative of e modulo a in the centred range [-a/2, a/2)
Centre(a, e) == IF 2 * (e % a) >= a THEN (e % a) - a ELSE e % a

CentreVec(a, v) == <<Centre(a, v[1]), Centre(a, v[2])>>

\* NestedLatticeQuantizer._encode: coefficients modulo the alphabet, and the
\* overflow flag (the point lies outside the shaping region)
NEncode(a, g, x) ==
    LET c == Coef(g, x)
    IN  [enc |-> <<c[1] % a, c[2] % a>>, overflow |-> CentreVec(a, c) # c]

\* NestedLatticeQuantizer._decode
NDecode(kind, a, g, enc) ==
    LET p == Dot(g, CentreVec(a, enc))
    IN  IF kind = "skewed" THEN <<p[1] + 1005, p[2]>> ELSE p

\* HierarchicalNestedLatticeQuantizer._encode: M base-q digits per coordinate
HEncode(qq, mm, g, x) ==
    LET c  == Coef(g, x)
        md == Pow(qq, mm)
        r  == <<c[1] % md, c[2] % md>>
    IN  [b_list   |-> [m \in 1..mm |-> << (r[1] \div Pow(qq, m - 1)) % qq,
                                          (r[2] \div Pow(qq, m - 1)) % qq >>],
         overflow |-> CentreVec(md, c) # c]

RECURSIVE DigitSum(_, _, _, _)
DigitSum(b, qq, c, m) ==
    IF m > Len(b) THEN 0 ELSE b[m][c] * Pow(qq, m - 1) + DigitSum(b, qq, c, m + 1)

\* HierarchicalNestedLatticeQuantizer._decode.  "nested" recombines all
\* levels; "truncating" drops the finest level; "aliasing" folds the second
\* coefficient into the first; "jitter" drops the finest level but leaves a
\* residue in x of 3e-10 per unit of the dropped digit; "drift" is off by
\* 1.005e-7 in x; "offset" is off by 3e-2 in x.
HDecode(kind, qq, mm, g, b) ==
    LET first == IF kind \in {"truncating", "jitter"} THEN 2 ELSE 1
        s     == <<DigitSum(b, qq, 1, first), DigitSum(b, qq, 2, first)>>
        c     == IF kind = "aliasing" THEN <<s[1] + s[2], 0>> ELSE s
        p     == Dot(g, CentreVec(Pow(qq, mm), c))
        low   == IF Len(b) >= 1 THEN b[1] ELSE <<0, 0>>
    IN  CASE kind = "jitter" -> <<p[1] + 3 * low[1], p[2]>>
          [] kind = "drift"  -> <<p[1] + 1005, p[2]>>
          [] kind = "offset" -> <<p[1] + 300000000, p[2]>>
          [] OTHER           -> p

\* Voronoi cell of the origin-adjacent point: vertex sequences scipy may
\* hand back (ordered, not closed)
BasePolygons ==
    { << <<2, 1>>, <<0, 2>>, <<-2, 1>>, <<-2, -1>>, <<0, -2>>, <<2, -1>> >>,
      << <<1, 1>>, <<3, 1>>, <<1, 4>> >> }


\* ------------------------------------------------------------------- state
VARIABLES
    entry,          \* the function being run
    G, q, M,        \* its arguments
    with_plot,
    hKind, fKind,   \* behaviour of the two quantizer collaborators
    pc,             \* position in the function
    err,            \* exception that ended the run, or "none"
    r_q,            \* overlap fraction (rational), line 46
    alphabet,       \* alphabet handed to the flat quantizer (rational)
    d,              \* the run's perturbation, line 54
    i, j,           \* loop indices
    lattice_points, \* compare_codebooks: accumulated hierarchical decodes
    mismatches, matches,
    point_map, duplicates,
    points,         \* generate_codebook: accumulated decodes
    out,            \* what has been printed
    polygons        \* closed polygons built by plot_with_voronoi

vars == <<entry, G, q, M, with_plot, hKind, fKind, pc, err, r_q, alphabet, d,
          i, j, lattice_points, mismatches, matches, point_map, duplicates,
          points, out, polygons>>

inputs == <<entry, G, q, M, with_plot, hKind, fKind>>
records == <<lattice_points, mismatches, matches, point_map, duplicates>>

NoRat == <<0, 1>>
NoPolygons == [inner |-> <<>>, nominal |-> <<>>, outer |-> <<>>]
EmptyMap == [k \in {} |-> <<0, 0>>]

\* side of the swept grid: range(q ** M)
Base == Pow(q, M)

\* the alphabet as the flat quantizer uses it
AlphabetInt == alphabet[1] \div alphabet[2]

Init ==
    /\ entry \in {"compare_codebooks", "generate_codebook"}
    /\ G \in Generators
    /\ q \in 1..MaxQ
    /\ M \in IF entry = "compare_codebooks" THEN 0..MaxM ELSE {1}
    /\ Pow(q, M) <= MaxBase
    /\ with_plot \in BOOLEAN
    /\ hKind \in IF entry = "compare_codebooks" THEN HKinds ELSE {"nested"}
    /\ fKind \in FKinds
    /\ pc = "start"
    /\ err = "none"
    /\ r_q = NoRat
    /\ alphabet = NoRat
    /\ d = <<0, 0>>
    /\ i = 0 /\ j = 0
    /\ lattice_points = <<>>
    /\ mismatches = <<>> /\ matches = <<>>
    /\ point_map = EmptyMap /\ duplicates = <<>>
    /\ points = <<>>
    /\ out = <<>>
    /\ polygons = NoPolygons

\* ---------------------------------------------------- compare_codebooks
\* variant of Overlap: exponent M-1 in place of 1-M
Overlap_WrongExponent(qq, mm) ==
    RatDiv(RatSub(RatInt(1), RatPow(qq, mm - 1)), RatInt(qq - 1))

\* line 46: r_q = (1 - q**(1-M)) / (q - 1)
Overlap(qq, mm) == RatDiv(RatSub(RatInt(1), RatPow(qq, 1 - mm)), RatInt(qq - 1))

\* variant of FlatAlphabet: the factor (1 - r_q) is left out
FlatAlphabet_NoOverlap(qq, mm, r) == RatInt(Pow(qq, mm))

\* line 49: the flat quantizer's alphabet (q**M) * (1 - r_q)
FlatAlphabet(qq, mm, r) == RatMul(RatInt(Pow(qq, mm)), RatSub(RatInt(1), r))

\* variant of NextIndex: the inner range stops one short
NextIndex_SkipsLast(a, b, n) == IF b + 1 < n - 1 THEN <<a, b + 1>> ELSE <<a + 1, 0>>

\* lines 55-56: the pair after (a, b) in the nested range loops
NextIndex(a, b, n) == IF b + 1 < n THEN <<a, b + 1>> ELSE <<a + 1, 0>>

\* variant of Classify: the round-trip test of the flat decode is left out
Classify_NoRoundTrip(l_p, dec, l_dec) ==
    IF ~AllClose(dec, l_dec, ATOL) THEN "mismatch" ELSE "match"

\* lines 65-69: classification of one grid point
Classify(l_p, dec, l_dec) ==
    IF AllClose(l_dec, l_p, ATOL)
    THEN IF ~AllClose(dec, l_dec, ATOL) THEN "mismatch" ELSE "match"
    ELSE "none"

\* variant of DupStep: a duplicate overwrites the first-seen pair
DupStep_Overwrites(pm, dups, key, pair) ==
    IF key \in DOMAIN pm
    THEN [point_map |-> [pm EXCEPT ![key] = pair],
          duplicates |-> Append(dups, <<key, pm[key], pair>>)]
    ELSE [point_map |-> (key :> pair) @@ pm, duplicates |-> dups]

\* variant of DupStep: a new point replaces the mapping instead of extending it
DupStep_ForgetsMap(pm, dups, key, pair) ==
    IF key \in DOMAIN pm
    THEN [point_map |-> pm, duplicates |-> Append(dups, <<key, pm[key], pair>>)]
    ELSE [point_map |-> (key :> pair), duplicates |-> dups]

\* lines 71-75: duplicate bookkeeping for one rounded point
DupStep(pm, dups, key, pair) ==
    IF key \in DOMAIN pm
    THEN [point_map |-> pm, duplicates |-> Append(dups, <<key, pm[key], pair>>)]
    ELSE [point_map |-> (key :> pair) @@ pm, duplicates |-> dups]

\* variant of AfterStage: the plot is called before the listings are printed
AfterStage_PlotFirst(stage, plot) ==
    CASE stage = "sweep"      -> IF plot THEN "plot" ELSE "duplicates"
      [] stage = "duplicates" -> "mismatches"
      [] stage = "mismatches" -> "done"

\* lines 79-101: what follows each reporting stage
AfterStage(stage, plot) ==
    CASE stage = "sweep"      -> "duplicates"
      [] stage = "duplicates" -> "mismatches"
      [] stage = "mismatches" -> IF plot THEN "plot" ELSE "done"

\* line 46 with q = 1: ZeroDivisionError
SetupFail ==
    /\ pc = "start" /\ entry = "compare_codebooks"
    /\ q = 1
    /\ pc' = "error" /\ err' = "ZeroDivisionError"
    /\ UNCHANGED <<inputs, r_q, alphabet, d, i, j, records, points, out, polygons>>

\* lines 43-54
Setup ==
    /\ pc = "start" /\ entry = "compare_codebooks"
    /\ q # 1
    /\ r_q' = Overlap(q, M)
    /\ alphabet' = FlatAlphabet(q, M, r_q')
    /\ d' \in Perturbations
    /\ lattice_points' = <<>> /\ mismatches' = <<>> /\ matches' = <<>>
    /\ point_map' = EmptyMap /\ duplicates' = <<>>
    /\ i' = 0 /\ j' = 0
    /\ pc' = "sweep"
    /\ UNCHANGED <<inputs, err, points, out, polygons>>

\* lines 55-77: one iteration of the loop body
SweepStep ==
    /\ pc = "sweep" /\ i < Base
    /\ LET l_p   == VecAdd(Dot(G, <<i, j>>), d)
           dec   == HDecode(hKind, q, M, G, HEncode(q, M, G, l_p).b_list)
           l_dec == NDecode(fKind, AlphabetInt, G, NEncode(AlphabetInt, G, l_p).enc)
           cls   == Classify(l_p, dec, l_dec)
           dup   == DupStep(point_map, duplicates, Round9Pt(dec), <<i, j>>)
           nx    == NextIndex(i, j, Base)
       IN  /\ mismatches' = IF cls = "mismatch"
                            THEN Append(mismatches, <<l_p, dec, l_dec>>)
                            ELSE mismatches
           /\ matches' = IF cls = "match" THEN Append(matches, <<l_p, dec>>) ELSE matches
           /\ point_map' = dup.point_map
           /\ duplicates' = dup.duplicates
           /\ lattice_points' = Append(lattice_points, dec)
           /\ i' = nx[1] /\ j' = nx[2]
    /\ UNCHANGED <<inputs, pc, err, r_q, alphabet, d, points, out, polygons>>

\* len(np.unique(lattice_points, axis=0)): exact equality of rows
UniqueCount(pts) == Cardinality({pts[k] : k \in 1..Len(pts)})

\* lines 79-80
ReportUnique ==
    /\ pc = "sweep" /\ i >= Base
    /\ out' = Append(out, [line |-> "unique", value |-> UniqueCount(lattice_points)])
    /\ pc' = AfterStage("sweep", with_plot)
    /\ UNCHANGED <<inputs, err, r_q, alphabet, d, i, j, records, points, polygons>>

\* lines 82-89
ReportDuplicates ==
    /\ pc = "duplicates"
    /\ out' = Append(out, [line |-> "duplicates", value |-> duplicates])
    /\ pc' = AfterStage("duplicates", with_plot)
    /\ UNCHANGED <<inputs, err, r_q, alphabet, d, i, j, records, points, polygons>>

\* lines 91-101
ReportMismatches ==
    /\ pc = "mismatches"
    /\ out' = Append(out, [line |-> "mismatches", value |-> mismatches])
    /\ pc' = AfterStage("mismatches", with_plot)
    /\ UNCHANGED <<inputs, err, r_q, alphabet, d, i, j, records, points, polygons>>

\* ---------------------------------------------------- plot_with_voronoi
\* lines 114-116: uniform scaling of the base vertices by a rational factor
ScaleVertices(f, vs) ==
    [k \in 1..Len(vs) |-> <<RatMul(f, RatInt(vs[k][1])), RatMul(f, RatInt(vs[k][2]))>>]

\* variant of ClosePolygon: the last vertex is repeated instead of the first
ClosePolygon_RepeatsLast(p) == Append(p, p[Len(p)])

\* lines 118-120: np.vstack([p, p[0]])
ClosePolygon(p) == Append(p, p[1])

InnerFactor(qq, mm, r) == RatMul(RatInt(Pow(qq, mm)), RatSub(RatInt(1), r))
OuterFactor(qq, mm, r) == RatMul(RatInt(Pow(qq, mm)), RatAdd(RatInt(1), r))
NominalFactor(qq, mm) == RatInt(Pow(qq, mm))

\* lines 114-120
BuildPolygons(qq, mm, r, vs) ==
    [inner   |-> ClosePolygon(ScaleVertices(InnerFactor(qq, mm, r), vs)),
     nominal |-> ClosePolygon(ScaleVertices(NominalFactor(qq, mm), vs)),
     outer   |-> ClosePolygon(ScaleVertices(OuterFactor(qq, mm, r), vs))]

HasOriginPoint(pts) == \E k \in 1..Len(pts) : NearOrigin(pts[k])

\* line 108: Qhull needs at least four distinct points in the plane
VoronoiFail ==
    /\ pc = "plot"
    /\ UniqueCount(lattice_points) < 4
    /\ pc' = "error" /\ err' = "QhullError"
    /\ UNCHANGED <<inputs, r_q, alphabet, d, i, j, records, points, out, polygons>>

\* line 110: np.where(...)[0][0] on an empty index array
LookupFail ==
    /\ pc = "plot"
    /\ UniqueCount(lattice_points) >= 4
    /\ ~HasOriginPoint(lattice_points)
    /\ pc' = "error" /\ err' = "IndexError"
    /\ UNCHANGED <<inputs, r_q, alphabet, d, i, j, records, points, out, polygons>>

\* lines 105-135
PlotWithVoronoi ==
    /\ pc = "plot"
    /\ UniqueCount(lattice_points) >= 4
    /\ HasOriginPoint(lattice_points)
    /\ \E vs \in BasePolygons : polygons' = BuildPolygons(q, M, r_q, vs)
    /\ pc' = "done"
    /\ UNCHANGED <<inputs, err, r_q, alphabet, d, i, j, records, points, out>>

\* ---------------------------------------------------- generate_codebook
\* variant of Collect: an overflowing point is skipped
Collect_SkipsOverflow(pts, dec, overflow) == IF overflow THEN pts ELSE Append(pts, dec)

\* line 20
Collect(pts, dec, overflow) == Append(pts, dec)

\* lines 12-13
GenSetup ==
    /\ pc = "start" /\ entry = "generate_codebook"
    /\ points' = <<>>
    /\ alphabet' = RatInt(q)
    /\ i' = 0 /\ j' = 0
    /\ pc' = "gen_sweep"
    /\ UNCHANGED <<inputs, err, r_q, d, records, out, polygons>>

\* lines 15-20: one iteration
GenStep ==
    /\ pc = "gen_sweep" /\ i < q
    /\ LET l_p == Dot(G, <<i, j>>)
           e   == NEncode(q, G, l_p)
           dec == NDecode(fKind, q, G, e.enc)
           nx  == NextIndex(i, j, q)
       IN  /\ points' = Collect(points, dec, e.overflow)
           /\ i' = nx[1] /\ j' = nx[2]
    /\ UNCHANGED <<inputs, pc, err, r_q, alphabet, d, records, out, polygons>>

\* lines 22-27
GenReturn ==
    /\ pc = "gen_sweep" /\ i >= q
    /\ pc' = "done"
    /\ UNCHANGED <<inputs, err, r_q, alphabet, d, i, j, records, points, out, polygons>>

Next ==
    \/ SetupFail
    \/ Setup
    \/ SweepStep
    \/ ReportUnique
    \/ ReportDuplicates
    \/ ReportMismatches
    \/ VoronoiFail
    \/ LookupFail
    \/ PlotWithVoronoi
    \/ GenSetup
    \/ GenStep
    \/ GenReturn

Spec == Init /\ [][Next]_vars


\* ------------------------------------------------------------ claim helpers
Comparing == entry = "compare_codebooks"
Generating == entry = "generate_codebook"
Swept == Comparing /\ pc \notin {"start", "sweep"} /\ err # "ZeroDivisionError"

\* pairs whose loop body has run
Processed == i * Base + j

\* the k-th pair (k >= 1) of a row-major sweep of an n x n grid
RowMajor(n, k) == <<(k - 1) \div n, (k - 1) % n>>
ColMajor(n, k) == <<(k - 1) % n, (k - 1) \div n>>
IndexOf(n, pair) == pair[1] * n + pair[2] + 1

PerturbedAt(k) == VecAdd(Dot(G, RowMajor(Base, k)), d)
HDecAt(k) == HDecode(hKind, q, M, G, HEncode(q, M, G, PerturbedAt(k)).b_list)
FDecAt(k) == NDecode(fKind, AlphabetInt, G, NEncode(AlphabetInt, G, PerturbedAt(k)).enc)

InSeq(x, sq) == \E m \in 1..Len(sq) : sq[m] = x
KeyAt(k) == Round9Pt(lattice_points[k])

\* pairs named by the bookkeeping: first-seen values of the map and the later
\* pair of every duplicate record
RecordedOnce(pair) ==
    Cardinality({key \in DOMAIN point_map : point_map[key] = pair})
      + Cardinality({m \in 1..Len(duplicates) : duplicates[m][3] = pair}) = 1

\* C1: for q >= 2 and M >= 1 the sweep visits every pair of the q^M x q^M
\* grid exactly once and appends exactly one hierarchical decode per pair,
\* whatever the pair's classification; at the end (q^M)^2 points are held and
\* the reported unique count is at most (q^M)^2.
C1_SweepAppendsEveryPair ==
    (Comparing /\ q >= 2 /\ M >= 1 /\ pc # "start") =>
        /\ Len(lattice_points) = Processed
        /\ Processed >= 1 => lattice_points[Processed] = HDecAt(Processed)
        /\ Swept =>
            /\ Len(lattice_points) = Base * Base
            /\ \A k \in 1..(Base * Base) :
                  /\ lattice_points[k] = HDecAt(k)
                  /\ RecordedOnce(RowMajor(Base, k))
            /\ out[1].line = "unique" /\ out[1].value <= Base * Base

C1_Witness ==
    /\ Comparing /\ q = 4 /\ M = 2 /\ pc = "done"
    /\ Len(lattice_points) = 256
    /\ duplicates # <<>> /\ mismatches # <<>> /\ matches # <<>>
    /\ Len(matches) + Len(mismatches) < 256

\* C2: a MismatchRecord (p, dec_h, dec_f) is kept iff dec_f is close to p and
\* dec_h is not close to dec_f; a match is kept iff both are close; when
\* dec_f is not close to p the point is in neither list.
C2_Classification ==
    (Comparing /\ pc # "start" /\ err # "ZeroDivisionError") =>
        /\ \A k \in (IF Swept THEN 1..Processed ELSE {Processed} \ {0}) :
            LET p == PerturbedAt(k)
                h == HDecAt(k)
                f == FDecAt(k)
                rt == AllClose(f, p, ATOL)
                ag == AllClose(h, f, ATOL)
            IN  /\ InSeq(<<p, h, f>>, mismatches) <=> (rt /\ ~ag)
                /\ InSeq(<<p, h>>, matches) <=> (rt /\ ag)
                /\ ~rt => ~InSeq(<<p, h, f>>, mismatches) /\ ~InSeq(<<p, h>>, matches)
        /\ Swept => \A m \in 1..Len(mismatches) : \A n \in 1..Len(matches) :
                        mismatches[m][1] # matches[n][1]
        /\ Len(mismatches) + Len(matches) <= Processed

C2_Witness ==
    /\ Swept /\ mismatches # <<>> /\ matches # <<>>
    /\ Len(mismatches) + Len(matches) < Len(lattice_points)
    /\ \E m \in 1..Len(matches) : matches[m][2] # FDecAt(1) /\ hKind = "drift"


\* earliest position of the sweep whose rounded decode is key
FirstAt(key) == CHOOSE k \in 1..Len(lattice_points) :
                    /\ KeyAt(k) = key
                    /\ \A m \in 1..(k - 1) : KeyAt(m) # key

WellFormedDuplicate(rec) ==
    /\ rec[2] # rec[3]
    /\ rec[2] = RowMajor(Base, FirstAt(rec[1]))
    /\ KeyAt(IndexOf(Base, rec[3])) = rec[1]
    /\ IndexOf(Base, rec[2]) < IndexOf(Base, rec[3])

\* C3: a DuplicateRecord (rounded point, first-seen pair, (i, j)) is emitted
\* iff the rounded hierarchical decode is already a key of the mapping,
\* otherwise the mapping gains rounded point -> (i, j); entries are never
\* overwritten, so the first-seen pair is the earliest pair in row-major order
\* with that rounded point and differs from the later pair; after every step
\* keys + duplicate records = pairs processed.
C3_DuplicateBookkeeping ==
    (Comparing /\ pc # "start" /\ err # "ZeroDivisionError") =>
        /\ Cardinality(DOMAIN point_map) + Len(duplicates) = Processed
        /\ Processed >= 1 =>
            LET key  == KeyAt(Processed)
                pair == RowMajor(Base, Processed)
                seen == \E m \in 1..(Processed - 1) : KeyAt(m) = key
            IN  /\ key \in DOMAIN point_map
                /\ seen <=> /\ duplicates # <<>>
                            /\ duplicates[Len(duplicates)] = <<key, point_map[key], pair>>
                /\ ~seen <=> point_map[key] = pair
                /\ duplicates # <<>> /\ duplicates[Len(duplicates)][3] = pair
                     => WellFormedDuplicate(duplicates[Len(duplicates)])
        /\ pc = "duplicates" =>
            /\ \A m \in 1..Len(duplicates) : WellFormedDuplicate(duplicates[m])
            /\ \A key \in DOMAIN point_map : point_map[key] = RowMajor(Base, FirstAt(key))

\* a rounded point seen three times, with raw decodes that all differ
C3_Witness ==
    /\ Swept /\ hKind = "jitter"
    /\ \E a \in 1..Len(duplicates) : \E b \in 1..Len(duplicates) :
          /\ a # b
          /\ duplicates[a][1] = duplicates[b][1]
          /\ duplicates[a][2] = duplicates[b][2]
    /\ UniqueCount(lattice_points) > Cardinality(DOMAIN point_map)

\* lines 55-75 run over an arbitrary enumeration order of the grid, the
\* rounded point of each pair being the one the run decoded for it
PairAt(order, n, k) == IF order = "column-major" THEN ColMajor(n, k) ELSE RowMajor(n, k)

RECURSIVE DupSweep(_, _, _, _, _)
DupSweep(order, n, lo, hi, acc) ==
    IF lo > hi THEN acc
    ELSE IF lo = hi
    THEN DupStep(acc.point_map, acc.duplicates,
                 KeyAt(IndexOf(n, PairAt(order, n, lo))), PairAt(order, n, lo))
    ELSE LET mid  == (lo + hi) \div 2
             left == DupSweep(order, n, lo, mid, acc)
         IN  \* the test only makes TLC evaluate the first half before the second
             IF left.duplicates = left.duplicates
             THEN DupSweep(order, n, mid + 1, hi, left)
             ELSE left

ColumnMajorRun ==
    DupSweep("column-major", Base, 1, Base * Base,
             [point_map |-> EmptyMap, duplicates |-> <<>>])

RowMajorRun ==
    DupSweep("row-major", Base, 1, Base * Base,
             [point_map |-> EmptyMap, duplicates |-> <<>>])

\* C4: sweeping the same grid column-major instead of row-major, with the
\* same rounded point at every pair, yields the same number of
\* DuplicateRecords.
C4_OrderSymmetry ==
    (Comparing /\ pc = "duplicates") =>
        Len(ColumnMajorRun.duplicates) = Len(duplicates)

\* counts agree although the first-seen pairs do not
C4_Witness ==
    /\ Comparing /\ pc = "duplicates" /\ duplicates # <<>>
    /\ Len(ColumnMajorRun.duplicates) = Len(duplicates)
    /\ RowMajorRun.duplicates = duplicates
    /\ ColumnMajorRun.point_map # point_map


Scenario42 == Comparing /\ q = 4 /\ M = 2 /\ pc # "start"

\* C5 (as stated): for q = 4 and M = 2 the overlap fraction is 0.25 and the
\* flat quantizer is built with alphabet 256 * 0.75 = 192 while the 16 x 16
\* grid is swept.
C5_AlphabetIs192 ==
    Scenario42 => r_q = <<1, 4>> /\ alphabet = <<192, 1>> /\ Base = 16

\* C5 (amended): for q = 4 and M = 2 the overlap fraction is 0.25 and the
\* flat quantizer is built with alphabet 16 * 0.75 = 12 while the 16 x 16
\* grid is swept.
C5_AlphabetIs12 ==
    Scenario42 =>
        /\ r_q = <<1, 4>>
        /\ alphabet = <<12, 1>>
        /\ Base = 16 /\ i <= 16 /\ j < 16
        /\ Swept => Len(lattice_points) = 256

C5_Witness == Scenario42 /\ Swept /\ alphabet = <<12, 1>> /\ matches # <<>>

Degenerate == Comparing /\ (q = 1 \/ M = 0)

\* C6: a degenerate configuration (q = 1 or M = 0) is rejected before the
\* sweep begins: nothing is encoded, decoded or recorded, and the run ends in
\* an error.
C6_DegenerateRejected ==
    Degenerate =>
        /\ pc \in {"start", "error"}
        /\ lattice_points = <<>> /\ duplicates = <<>>
        /\ mismatches = <<>> /\ matches = <<>>
        /\ point_map = EmptyMap

\* C7: when no accumulated point lies within the origin tolerance, the
\* unique-point count, the duplicate listing and the mismatch listing have
\* all been reported before the lookup fails, and the records are intact.
C7_ReportedBeforeLookupFailure ==
    (Comparing /\ pc = "error" /\ err = "IndexError") =>
        /\ Len(out) = 3
        /\ out[1] = [line |-> "unique", value |-> UniqueCount(lattice_points)]
        /\ out[2] = [line |-> "duplicates", value |-> duplicates]
        /\ out[3] = [line |-> "mismatches", value |-> mismatches]
        /\ Len(lattice_points) = Base * Base
        /\ Cardinality(DOMAIN point_map) + Len(duplicates) = Base * Base
        /\ \A k \in 1..Len(lattice_points) : lattice_points[k] = HDecAt(k)

C7_Witness ==
    /\ Comparing /\ pc = "error" /\ err = "IndexError"
    /\ ~HasOriginPoint(lattice_points)
    /\ mismatches # <<>> /\ Len(out) = 3

Built == Comparing /\ pc = "done" /\ polygons # NoPolygons

Ratio(r) == RatDiv(RatAdd(RatInt(1), r), RatSub(RatInt(1), r))

\* C8: the inner, nominal and outer polygons are one base vertex sequence
\* scaled by q^M(1-r), q^M and q^M(1+r) and closed with the polygon's own
\* first vertex: equal vertex counts, first = last, and outer[k] =
\* ((1+r)/(1-r)) * inner[k] at every position.
C8_PolygonsAreScalarMultiples ==
    Built =>
        /\ Len(polygons.inner) = Len(polygons.nominal)
        /\ Len(polygons.outer) = Len(polygons.nominal)
        /\ \A name \in {"inner", "nominal", "outer"} :
              polygons[name][1] = polygons[name][Len(polygons[name])]
        /\ \A k \in 1..Len(polygons.inner) : \A c \in 1..2 :
              polygons.outer[k][c] = RatMul(Ratio(r_q), polygons.inner[k][c])
        /\ \E vs \in BasePolygons :
              /\ Len(polygons.nominal) = Len(vs) + 1
              /\ \A k \in 1..Len(vs) : \A c \in 1..2 :
                    /\ polygons.nominal[k][c] = RatInt(Pow(q, M) * vs[k][c])
                    /\ polygons.inner[k][c] =
                         RatMul(RatSub(RatInt(1), r_q), polygons.nominal[k][c])
                    /\ polygons.outer[k][c] =
                         RatMul(RatAdd(RatInt(1), r_q), polygons.nominal[k][c])

C8_Witness ==
    /\ Built /\ M = 2 /\ q = 4
    /\ Len(polygons.outer) = 7
    /\ polygons.outer[1] # polygons.inner[1]
    /\ polygons.outer[1] # polygons.outer[6]

StrictlyBetween(x, a, b) ==
    \/ RatLess(a, x) /\ RatLess(x, b)
    \/ RatLess(b, x) /\ RatLess(x, a)

Valid == Comparing /\ q >= 2 /\ M >= 1 /\ pc # "start"

\* C9 (as stated): for q >= 2 and M >= 1 the overlap fraction satisfies
\* 0 < r < 1 and every coordinate of the nominal polygon lies strictly
\* between the matching coordinates of the inner and outer polygons.
C9_StrictlyBetween ==
    Valid =>
        /\ RatLess(RatInt(0), r_q) /\ RatLess(r_q, RatInt(1))
        /\ Built => \A k \in 1..Len(polygons.nominal) : \A c \in 1..2 :
              StrictlyBetween(polygons.nominal[k][c],
                              polygons.inner[k][c], polygons.outer[k][c])

\* C9 (amended): for q >= 2 and M >= 1 the overlap fraction satisfies
\* 0 <= r < 1, with r = 0 exactly when M = 1; a nominal coordinate lies
\* strictly between the inner and outer ones when M >= 2 and the base
\* coordinate is not zero, and the three coordinates are equal otherwise.
C9_BetweenUnlessDegenerate ==
    Valid =>
        /\ ~RatLess(r_q, RatInt(0)) /\ RatLess(r_q, RatInt(1))
        /\ r_q = RatInt(0) <=> M = 1
        /\ Built => \A k \in 1..Len(polygons.nominal) : \A c \in 1..2 :
              LET x == polygons.nominal[k][c]
                  a == polygons.inner[k][c]
                  b == polygons.outer[k][c]
              IN  IF M >= 2 /\ x # RatInt(0)
                  THEN StrictlyBetween(x, a, b)
                  ELSE a = x /\ b = x

C9_Witness ==
    /\ Valid /\ Built /\ M = 2
    /\ \E k \in 1..Len(polygons.nominal) :
          /\ polygons.nominal[k][1] = RatInt(0)
          /\ RatLess(polygons.nominal[k][2], RatInt(0))
          /\ StrictlyBetween(polygons.nominal[k][2],
                             polygons.inner[k][2], polygons.outer[k][2])

\* C10: generate_codebook sweeps the q^2 pairs in row-major order and returns
\* exactly q^2 points, the one at position i*q + j being
\* decode(encode(G.(i, j))) of the flat quantizer with alphabet q; a point
\* whose encode reports overflow is included as decoded.
C10_CodebookIsRowMajor ==
    Generating =>
        /\ Len(points) = (IF pc = "start" THEN 0 ELSE i * q + j)
        /\ pc = "done" =>
            /\ Len(points) = q * q
            /\ \A a \in 0..(q - 1) : \A b \in 0..(q - 1) :
                  points[a * q + b + 1] =
                      NDecode(fKind, q, G, NEncode(q, G, Dot(G, <<a, b>>)).enc)

C10_Witness ==
    /\ Generating /\ pc = "done" /\ q = 4 /\ Len(points) = 16
    /\ NEncode(q, G, Dot(G, <<1, 3>>)).overflow
    /\ points[1 * q + 3 + 1] # points[3 * q + 1 + 1]
    /\ points[1 * q + 3 + 1] # Dot(G, <<1, 3>>)

====
